---- MODULE Spec2Model ----
(***************************************************************************)
(* Model of bindings/rust/build.rs of tree-sitter-python: the build script *)
(* that compiles src/parser.c and src/scanner.cc with the cc crate and     *)
(* tells cargo which files to watch.                                       *)
(*                                                                         *)
(* main is modelled statement by statement (pc is the position in main).   *)
(* The host (toolchain, files on disk) and the enclosing build system      *)
(* (which re-invokes main) are the environment.                            *)
(***************************************************************************)
EXTENDS Integers, Sequences, FiniteSets, TLC

VARIABLES
    avail,       \* avail[l]: a compiler for language l ("c", "c++") can be spawned
    supported,   \* supported[l]: the flags the compiler for l recognises
    fs,          \* fs[f]: what is on disk at path f: "absent", "bad" or "good"
    changed,     \* files whose content changed since the current invocation began
    pc,          \* position in main, or "success" / "failed" once the process ended
    c_config,    \* the cc::Build of the parser job
    cpp_config,  \* the cc::Build of the scanner job
    stdout,      \* the lines main and cc have printed for cargo, in order
    started,     \* names given to Build::compile in this invocation, in order
    invoked,     \* files the compiler was actually run on in this invocation
    produced,    \* static libraries archived by this invocation
    invocation,  \* number of the current invocation of main
    cause,       \* why the build system ran main: "fresh", "change" or "retry"
    trigger      \* the watched files whose change made the build system run main

vars == <<avail, supported, fs, changed, pc, c_config, cpp_config, stdout,
          started, invoked, produced, invocation, cause, trigger>>

host == <<avail, supported>>
run  == <<c_config, cpp_config, stdout, started, invoked, produced>>

\* ---------------------------------------------------------------- bounds
MaxInvocations == 2

\* ------------------------------------------------------------- constants
Langs == {"c", "c++"}

WnoUnusedParameter      == "-Wno-unused-parameter"
WnoUnusedButSetVariable == "-Wno-unused-but-set-variable"
WnoTrigraphs            == "-Wno-trigraphs"
Flags == {WnoUnusedParameter, WnoUnusedButSetVariable, WnoTrigraphs}

\* Path::join on relative components
Join(dir, name) == dir \o "/" \o name

src_dir      == "src"
parser_path  == Join(src_dir, "parser.c")
\* variant: the scanner job is given the parser's file name
scanner_path_copied == Join(src_dir, "parser.c")
scanner_path == Join(src_dir, "scanner.cc")
\* a header of the include directory, read by both sources
header_path  == Join(Join(src_dir, "tree_sitter"), "parser.h")

ParserName  == "parser"
\* variant: both archives get the same name
ScannerNameCopied == "parser"
ScannerName == "scanner"

Files   == {parser_path, scanner_path, header_path}
Sources == {parser_path, scanner_path}

\* variant: the declaration names the source directory
RerunIfChangedDir(path) == "cargo:rerun-if-changed=" \o src_dir

\* println!("cargo:rerun-if-changed={}", path)
RerunIfChanged(path) == "cargo:rerun-if-changed=" \o path
\* what Build::compile prints once the archive is written
LinkLib(name) == "cargo:rustc-link-lib=static=" \o name

\* ------------------------------------------------------------ cc::Build
\* cc::Build::new()
NewBuild == [cpp |-> FALSE, include |-> {}, flags |-> {},
             flags_supported |-> {}, files |-> {}]

SetCpp(cfg, b)   == [cfg EXCEPT !.cpp = b]
\* variant: the include directory is not added
IncludeDropped(cfg, d) == cfg
Include(cfg, d)  == [cfg EXCEPT !.include = @ \cup {d}]
AddFile(cfg, f)  == [cfg EXCEPT !.files = @ \cup {f}]
\* variant: Build::flag, the flag is passed untested
FlagUnconditional(cfg, flag) == [cfg EXCEPT !.flags = @ \cup {flag}]

\* Build::flag_if_supported records the flag; it is tested when compiling
FlagIfSupported(cfg, flag) == [cfg EXCEPT !.flags_supported = @ \cup {flag}]

LangOf(cfg) == IF cfg.cpp THEN "c++" ELSE "c"

\* Build::is_flag_supported: a trial compilation with the job's compiler;
\* any error, a missing compiler included, counts as "not supported"
IsFlagSupported(cfg, flag) ==
    avail[LangOf(cfg)] /\ flag \in supported[LangOf(cfg)]

\* the flags that reach the compiler's command line
CommandFlags(cfg) ==
    cfg.flags \cup {f \in cfg.flags_supported : IsFlagSupported(cfg, f)}

\* the compiler finds the header iff its directory is on the search path
HeaderFound(cfg) == src_dir \in cfg.include /\ fs[header_path] = "good"

\* one run of the compiler on one file
CompilerAccepts(cfg, f) ==
    /\ CommandFlags(cfg) \subseteq supported[LangOf(cfg)]
    /\ fs[f] = "good"
    /\ HeaderFound(cfg)

\* Build::try_compile: Ok iff the tool is found and every file compiles
TryCompile(cfg) ==
    /\ avail[LangOf(cfg)]
    /\ \A f \in cfg.files : CompilerAccepts(cfg, f)

\* variant: the files are checked for existence before the compiler is run
FilesInvokedIfPresent(cfg) ==
    IF avail[LangOf(cfg)] /\ \A f \in cfg.files : fs[f] # "absent"
      THEN cfg.files ELSE {}

\* files the compiler process is run on (none when the tool is missing)
FilesInvoked(cfg) == IF avail[LangOf(cfg)] THEN cfg.files ELSE {}

\* ------------------------------------------------------------------ main
\* variant: the compile job of a unit runs before its declaration is printed
OrderCompileFirst ==
    <<"config_c", "compile_parser", "declare_parser",
      "config_cpp", "compile_scanner", "declare_scanner", "success">>

\* variant: the scanner block comes before the parser block
OrderScannerFirst ==
    <<"config_cpp", "declare_scanner", "compile_scanner",
      "config_c", "declare_parser", "compile_parser", "success">>

Order == <<"config_c", "declare_parser", "compile_parser",
           "config_cpp", "declare_scanner", "compile_scanner", "success">>

Terminal == {"success", "failed"}

Succ(l) == Order[(CHOOSE i \in 1..(Len(Order) - 1) : Order[i] = l) + 1]

\* variant: Build::try_compile with the result dropped
AfterCompileIgnoringError(ok, next) == next

\* Build::compile: panics (the process exits non-zero) on Err
AfterCompile(ok, next) == IF ok THEN next ELSE "failed"

TypeOK ==
    /\ avail \in [Langs -> BOOLEAN]
    /\ supported \in [Langs -> SUBSET Flags]
    /\ fs \in [Files -> {"absent", "bad", "good"}]
    /\ changed \subseteq Files
    /\ pc \in Terminal \cup {Order[i] : i \in 1..Len(Order)}
    /\ started \in Seq({ParserName, ScannerName})
    /\ invoked \subseteq Files
    /\ invocation \in 1..MaxInvocations
    /\ cause \in {"fresh", "change", "retry"}
    /\ trigger \subseteq Files

Init ==
    /\ avail \in [Langs -> BOOLEAN]
    /\ supported \in [Langs -> SUBSET Flags]
    \* a compiler that cannot be spawned recognises nothing
    /\ \A l \in Langs : ~avail[l] => supported[l] = {}
    /\ fs \in [Files -> {"absent", "bad", "good"}]
    /\ changed = {}
    /\ pc = Order[1]
    /\ c_config = NewBuild
    /\ cpp_config = NewBuild
    /\ stdout = <<>>
    /\ started = <<>>
    /\ invoked = {}
    /\ produced = {}
    /\ invocation = 1
    /\ cause = "fresh"
    /\ trigger = {}

\* lines 7-14
ConfigC ==
    /\ pc = "config_c"
    /\ c_config' =
         AddFile(
           FlagIfSupported(
             FlagIfSupported(
               FlagIfSupported(Include(NewBuild, src_dir), WnoUnusedParameter),
               WnoUnusedButSetVariable),
             WnoTrigraphs),
           parser_path)
    /\ pc' = Succ(pc)
    /\ UNCHANGED <<host, fs, changed, cpp_config, stdout, started, invoked,
                   produced, invocation, cause, trigger>>

\* line 15
DeclareParser ==
    /\ pc = "declare_parser"
    /\ stdout' = Append(stdout, RerunIfChanged(parser_path))
    /\ pc' = Succ(pc)
    /\ UNCHANGED <<host, fs, changed, c_config, cpp_config, started, invoked,
                   produced, invocation, cause, trigger>>

\* variant: the archive is written whether or not the objects compiled
ArchivedAlways(cfg, name) == {name}

\* the static libraries one Build::compile leaves in the output directory
Archived(cfg, name) == IF TryCompile(cfg) THEN {name} ELSE {}

\* Build::compile(name) on cfg, continuing at Succ(pc) when it returns
Compile(cfg, name) ==
    /\ started' = Append(started, name)
    /\ invoked' = invoked \cup FilesInvoked(cfg)
    /\ produced' = produced \cup Archived(cfg, name)
    /\ stdout' = IF TryCompile(cfg) THEN Append(stdout, LinkLib(name))
                                   ELSE stdout
    /\ pc' = AfterCompile(TryCompile(cfg), Succ(pc))

\* line 16
CompileParser ==
    /\ pc = "compile_parser"
    /\ Compile(c_config, ParserName)
    /\ UNCHANGED <<host, fs, changed, c_config, cpp_config,
                   invocation, cause, trigger>>

\* lines 18-25
ConfigCpp ==
    /\ pc = "config_cpp"
    /\ cpp_config' =
         AddFile(
           FlagIfSupported(
             FlagIfSupported(Include(SetCpp(NewBuild, TRUE), src_dir),
                             WnoUnusedParameter),
             WnoUnusedButSetVariable),
           scanner_path)
    /\ pc' = Succ(pc)
    /\ UNCHANGED <<host, fs, changed, c_config, stdout, started, invoked,
                   produced, invocation, cause, trigger>>

\* line 26
DeclareScanner ==
    /\ pc = "declare_scanner"
    /\ stdout' = Append(stdout, RerunIfChanged(scanner_path))
    /\ pc' = Succ(pc)
    /\ UNCHANGED <<host, fs, changed, c_config, cpp_config, started, invoked,
                   produced, invocation, cause, trigger>>

\* line 27 (and the return of main, line 28)
CompileScanner ==
    /\ pc = "compile_scanner"
    /\ Compile(cpp_config, ScannerName)
    /\ UNCHANGED <<host, fs, changed, c_config, cpp_config,
                   invocation, cause, trigger>>

Step ==
    \/ ConfigC
    \/ DeclareParser
    \/ CompileParser
    \/ ConfigCpp
    \/ DeclareScanner
    \/ CompileScanner

\* ----------------------------------------------------------- environment
\* the files the finished run asked cargo to watch
Watched == {f \in Files : \E i \in 1..Len(stdout) : stdout[i] = RerunIfChanged(f)}

\* the declarations whose file changed since the run: the rebuild signal
Signals == Watched \cap changed

\* between two invocations somebody edits, creates or deletes a file
Edit ==
    /\ pc \in Terminal
    /\ \E f \in Files, v \in {"absent", "bad", "good"} :
         /\ ~(fs[f] = "absent" /\ v = "absent")
         /\ fs' = [fs EXCEPT ![f] = v]
         /\ changed' = changed \cup {f}
    /\ UNCHANGED <<host, pc, run, invocation, cause, trigger>>

\* a new process running main from the top
Restart(why) ==
    /\ invocation < MaxInvocations
    /\ invocation' = invocation + 1
    /\ cause' = why
    /\ trigger' = Signals
    /\ changed' = {}
    /\ pc' = Order[1]
    /\ c_config' = NewBuild
    /\ cpp_config' = NewBuild
    /\ stdout' = <<>>
    /\ started' = <<>>
    /\ invoked' = {}
    /\ produced' = {}
    /\ UNCHANGED <<host, fs>>

\* after a successful run cargo re-runs the script iff a watched file changed
RebuildOnChange ==
    /\ pc = "success"
    /\ Signals # {}
    /\ Restart("change")

\* the output of a failed run is discarded: the next build runs the script again
RebuildAfterFailure ==
    /\ pc = "failed"
    /\ Restart("retry")

Next ==
    \/ Step
    \/ Edit
    \/ RebuildOnChange
    \/ RebuildAfterFailure

Spec == Init /\ [][Next]_vars

FairSpec == Spec /\ WF_vars(Step)

\* ------------------------------------------------------------ properties
Range(s) == {s[i] : i \in 1..Len(s)}

NoDuplicates(s) == \A i, j \in 1..Len(s) : s[i] = s[j] => i = j

Running == pc \notin Terminal

\* the toolchain is there and all three files are as the run needs them
AllGood ==
    /\ \A l \in Langs : avail[l]
    /\ \A f \in {"src/parser.c", "src/scanner.cc", "src/tree_sitter/parser.h"} :
         f \in DOMAIN fs /\ fs[f] = "good"

\* C1 (safety part): a run over compilable sources with a toolchain can only
\* end in success, and a successful run has archived exactly "parser" and
\* "scanner".
C1_ExactlyTwoArtifacts ==
    /\ (AllGood /\ changed = {} /\ pc \in Terminal) => pc = "success"
    /\ pc = "success" =>
         /\ produced = {"parser", "scanner"}
         /\ Cardinality(produced) = 2

C1_Done == pc = "success" /\ produced = {"parser", "scanner"}

\* C1: every build invocation over existing, compilable parser and scanner
\* sources with a toolchain terminates successfully having produced exactly
\* the two artifacts "parser" and "scanner".
C1_BuildsBoth ==
    /\ []C1_ExactlyTwoArtifacts
    /\ (AllGood /\ changed = {}) ~> C1_Done

C1_Witness ==
    /\ AllGood /\ changed = {} /\ invocation = 1
    /\ pc = "success" /\ produced = {"parser", "scanner"}

\* C2: with src/parser.c absent the run never reports success, and the
\* scanner job is never started in it.
C2_MissingParserFails ==
    (fs["src/parser.c"] = "absent" /\ "src/parser.c" \notin changed) =>
        /\ pc # "success"
        /\ "scanner" \notin Range(started)
        /\ "scanner" \notin produced

C2_Witness ==
    /\ fs["src/parser.c"] = "absent" /\ changed = {}
    /\ fs["src/scanner.cc"] = "good" /\ avail["c"] /\ avail["c++"]
    /\ pc = "failed" /\ started = <<"parser">>

\* C3 as stated: a run that ended in failure has produced no artifact.
C3_NoArtifactOnFailure == pc = "failed" => produced = {}

\* C3 as amended: a failed run has not produced the scanner artifact nor the
\* artifact of the unit that failed; a failure of the parser unit leaves
\* nothing, a failure of the scanner unit leaves the parser artifact. No
\* compile job is started twice and none is started after the failure.
C3_FailureLeavesAtMostParser ==
    /\ NoDuplicates(started)
    /\ pc = "failed" =>
         /\ started # <<>>
         /\ started[Len(started)] \notin produced
         /\ "scanner" \notin produced
         /\ \/ started = <<"parser">> /\ produced = {}
            \/ started = <<"parser", "scanner">> /\ produced = {"parser"}

C3_Witness ==
    pc = "failed" /\ started = <<"parser", "scanner">> /\ produced = {"parser"}

\* C4: the flags the toolchain does not recognise never reach a compiler's
\* command line, and how a run ends depends on the toolchain being present
\* and on the files only, whatever subset of the flags is recognised.
C4_UnsupportedFlagsHarmless ==
    /\ CommandFlags(c_config) \subseteq supported["c"]
    /\ CommandFlags(cpp_config) \subseteq supported["c++"]
    /\ (changed = {} /\ "parser" \in Range(started)) =>
         ("parser" \in produced <=>
             /\ avail["c"]
             /\ fs["src/parser.c"] = "good"
             /\ fs["src/tree_sitter/parser.h"] = "good")
    /\ (changed = {} /\ "scanner" \in Range(started)) =>
         ("scanner" \in produced <=>
             /\ avail["c++"]
             /\ fs["src/scanner.cc"] = "good"
             /\ fs["src/tree_sitter/parser.h"] = "good")
    /\ (changed = {} /\ pc \in Terminal) => (pc = "success" <=> AllGood)

C4_Witness ==
    /\ pc = "success" /\ changed = {}
    /\ supported["c"] = {} /\ supported["c++"] = {"-Wno-trigraphs"}
    /\ c_config.flags_supported =
         {"-Wno-unused-parameter", "-Wno-unused-but-set-variable", "-Wno-trigraphs"}
    /\ cpp_config.flags_supported =
         {"-Wno-unused-parameter", "-Wno-unused-but-set-variable"}

\* C5: a successful run has emitted two declarations, one naming
\* src/parser.c and one naming src/scanner.cc; when afterwards the scanner
\* source changes and the parser source does not, the scanner's declaration
\* alone signals a rebuild.
C5_ScannerChangeSignalsScannerOnly ==
    /\ pc = "success" =>
         /\ stdout = << "cargo:rerun-if-changed=src/parser.c",
                        "cargo:rustc-link-lib=static=parser",
                        "cargo:rerun-if-changed=src/scanner.cc",
                        "cargo:rustc-link-lib=static=scanner" >>
         /\ Watched = {"src/parser.c", "src/scanner.cc"}
         /\ Cardinality(Watched) = 2
    /\ (pc = "success" /\ "src/scanner.cc" \in changed
                       /\ "src/parser.c" \notin changed) =>
         Signals = {"src/scanner.cc"}

C5_Witness ==
    /\ pc = "success" /\ changed = {"src/scanner.cc"}
    /\ Signals = {"src/scanner.cc"}

\* C6 as stated: in a run the build system started because a watched file
\* changed, a unit is compiled only if its own source is among the files
\* that changed.
C6_UnitRebuiltOnlyOnOwnChange ==
    cause = "change" =>
        /\ "parser" \in Range(started) => "src/parser.c" \in trigger
        /\ "scanner" \in Range(started) => "src/scanner.cc" \in trigger

\* C6 as amended: the build system re-runs the driver after a successful
\* build only in response to a change of the parser source or of the
\* scanner source, and every such re-run executes the whole driver: the
\* parser unit is compiled first whichever of the two files changed, and
\* the scanner unit is compiled exactly when the parser unit has compiled.
C6_RerunRebuildsWholeDriver ==
    cause = "change" =>
        /\ trigger # {}
        /\ trigger \subseteq {"src/parser.c", "src/scanner.cc"}
        /\ started # <<>> => started[1] = "parser"
        /\ pc \in Terminal => "parser" \in Range(started)
        /\ (pc \in Terminal \/ "scanner" \in Range(started)) =>
             ("scanner" \in Range(started) <=> "parser" \in produced)

C6_Witness ==
    /\ cause = "change" /\ trigger = {"src/scanner.cc"}
    /\ pc = "success" /\ started = <<"parser", "scanner">>

\* C7 as stated: the compiler is never run on a source file that does not
\* exist.
C7_NoCompilerRunOnMissingFile ==
    \A f \in invoked : f \notin changed => fs[f] # "absent"

\* the source file and the language of a unit
C7_Src(u)  == IF u = "parser" THEN "src/parser.c" ELSE "src/scanner.cc"
C7_Lang(u) == IF u = "parser" THEN "c" ELSE "c++"

\* C7 as amended: if a declared source file is absent the driver fails
\* fatally in that unit's compile step and produces no artifact for it;
\* nothing checks for the file beforehand, the compile job is started and,
\* with a toolchain present, the compiler is run on the missing path.
C7_MissingSourceFailsInCompile ==
    \A u \in {"parser", "scanner"} :
        (fs[C7_Src(u)] = "absent" /\ C7_Src(u) \notin changed) =>
            /\ u \notin produced
            /\ pc # "success"
            /\ u \in Range(started) =>
                 /\ pc = "failed"
                 /\ started[Len(started)] = u
                 /\ avail[C7_Lang(u)] => C7_Src(u) \in invoked

C7_Witness ==
    /\ pc = "failed" /\ changed = {}
    /\ fs["src/scanner.cc"] = "absent" /\ avail["c++"]
    /\ started = <<"parser", "scanner">>
    /\ "src/scanner.cc" \in invoked

\* C8 as stated: when the driver has terminated both units have been
\* attempted, each exactly once, so that each has either produced its
\* artifact or failed.
C8_BothUnitsAttempted ==
    /\ NoDuplicates(started)
    /\ pc \in Terminal => Range(started) = {"parser", "scanner"}

\* C8 as amended: when the driver has terminated the parser unit has either
\* produced its artifact or failed; the scanner unit has produced its
\* artifact, failed, or was never attempted, the last exactly when the
\* parser unit failed. Each unit is compiled at most once per invocation.
C8_OutcomesPerUnit ==
    /\ NoDuplicates(started)
    /\ Len(started) <= 2
    /\ produced \subseteq Range(started)
    /\ pc \in Terminal =>
         /\ started # <<>> /\ started[1] = "parser"
         /\ "scanner" \in Range(started) <=> "parser" \in produced
         /\ pc = "success" <=> produced = {"parser", "scanner"}
         /\ pc = "failed" <=> started[Len(started)] \notin produced

C8_Witness ==
    /\ pc = "failed" /\ started = <<"parser">> /\ produced = {}
    /\ fs["src/scanner.cc"] = "good" /\ avail["c++"]

\* position of a line in the output, 0 when it was not printed
C9_Pos(line) ==
    IF line \in Range(stdout)
      THEN CHOOSE i \in 1..Len(stdout) : stdout[i] = line
      ELSE 0

C9_DeclP == "cargo:rerun-if-changed=src/parser.c"
C9_DeclS == "cargo:rerun-if-changed=src/scanner.cc"

\* C9: a unit's declaration is printed before its compile job starts, and
\* the scanner's declaration only after the parser has been archived; a run
\* that fails in the parser job has printed the parser's declaration alone,
\* a run that fails in the scanner job has printed both.
C9_DeclarationOrder ==
    /\ "parser" \in Range(started) => C9_Pos(C9_DeclP) = 1
    /\ "scanner" \in Range(started) => C9_Pos(C9_DeclS) > 0
    /\ C9_Pos(C9_DeclS) > 0 =>
         /\ "parser" \in produced
         /\ C9_Pos(C9_DeclP) < C9_Pos("cargo:rustc-link-lib=static=parser")
         /\ C9_Pos("cargo:rustc-link-lib=static=parser") < C9_Pos(C9_DeclS)
    /\ "scanner" \in produced =>
         C9_Pos(C9_DeclS) < C9_Pos("cargo:rustc-link-lib=static=scanner")
    /\ (pc = "failed" /\ started = <<"parser">>) =>
         stdout = <<C9_DeclP>>
    /\ (pc = "failed" /\ started = <<"parser", "scanner">>) =>
         stdout = <<C9_DeclP, "cargo:rustc-link-lib=static=parser", C9_DeclS>>

C9_Witness ==
    /\ pc = "failed" /\ started = <<"parser", "scanner">>
    /\ C9_Pos(C9_DeclP) = 1 /\ C9_Pos(C9_DeclS) = 3

\* C10: every line the driver prints is the declaration of src/parser.c or
\* of src/scanner.cc, or the link line of an archived unit; no header is
\* watched, so after a successful build a change of a header alone gives no
\* rebuild signal and no re-run, although both jobs search the header's
\* directory.
C10_OnlySourcesWatched ==
    /\ Range(stdout) \subseteq
         {C9_DeclP, C9_DeclS, "cargo:rustc-link-lib=static=parser",
          "cargo:rustc-link-lib=static=scanner"}
    /\ Watched \subseteq {"src/parser.c", "src/scanner.cc"}
    /\ pc = "success" =>
         /\ "src" \in c_config.include /\ "src" \in cpp_config.include
         /\ changed \cap {"src/parser.c", "src/scanner.cc"} = {} =>
              /\ Signals = {}
              /\ ~ENABLED RebuildOnChange

C10_Witness ==
    /\ pc = "success" /\ changed = {"src/tree_sitter/parser.h"}
    /\ fs["src/tree_sitter/parser.h"] = "bad"

====
